---- MODULE Spec2Model ----
(***************************************************************************)
(* A model of the esp32-thermistor driver                                  *)
(* (components/esp32-thermistor/thermistor.c, include/thermistor.h) and of *)
(* the polling loop of main/app_main.c.                                    *)
(*                                                                         *)
(* The driver computes in C float (IEEE-754 binary32) and double           *)
(* (binary64).  Both are modelled by dyadic values [k, s, m, e] standing   *)
(* for (-1)^s * m * 2^e, with m an odd natural number held as a sequence   *)
(* of 15-bit limbs, least significant first (TLC's integers have 32 bits). *)
(* Every arithmetic operation is the exact operation followed by rounding  *)
(* to nearest, ties to even, at 24 bits (float) or 53 bits (double); the   *)
(* special values (infinities, NaN, division by zero) follow IEEE-754.     *)
(* The exponent range is not limited: no value of the driver comes near    *)
(* the overflow or the subnormal range of binary32.                        *)
(***************************************************************************)
EXTENDS Integers, Sequences, FiniteSets, TLC

(***************************************************************************)
(* Natural numbers of any size: sequences of limbs in base 2^15.           *)
(***************************************************************************)
Base == 2^15

Pow2(n) == 2^n

\* TRUE.  As a condition in front of an expression that uses x, it makes TLC
\* evaluate x there and not deep inside that expression, which keeps the
\* evaluation of long formulas shallow.
Evaluated(x) == x = x

RECURSIVE BigOfInt(_)
BigOfInt(n) == IF n = 0 THEN << >> ELSE <<n % Base>> \o BigOfInt(n \div Base)

\* a without its leading zero limbs.
BigStrip(a) ==
    SubSeq(a, 1, Cardinality({j \in 1..Len(a) : \E k \in j..Len(a) : a[k] # 0}))

Limb(a, j) == IF j <= Len(a) THEN a[j] ELSE 0

\* The number whose limbs c are not yet within 0..(Base - 1), as a sequence
\* of limbs that are: every pass moves what exceeds a limb into the next one,
\* until nothing exceeds.  (A negative limb borrows from the next one; the
\* number is not negative.)
RECURSIVE BigCarry(_)
BigCarry(c) ==
    IF \A j \in 1..Len(c) : c[j] >= 0 /\ c[j] < Base THEN c
    ELSE BigCarry(<< >> \o [j \in 1..(Len(c) + 1) |->
             (Limb(c, j) % Base) + (IF j = 1 THEN 0 ELSE c[j - 1] \div Base)])

BigAdd(a, b) ==
    BigStrip(BigCarry(<< >> \o [j \in 1..(IF Len(a) > Len(b) THEN Len(a) ELSE Len(b)) |->
                 Limb(a, j) + Limb(b, j)]))

\* -1, 0 or 1 as a < b, a = b or a > b (both stripped): the highest limb in
\* which they differ decides.
BigCmpAt(a, b, j) ==
    IF j = 0 THEN 0 ELSE IF a[j] > b[j] THEN 1 ELSE -1

BigCmp(a, b) ==
    IF Len(a) > Len(b) THEN 1
    ELSE IF Len(a) < Len(b) THEN -1
    ELSE BigCmpAt(a, b, Cardinality({j \in 1..Len(a) :
                                         \E k \in j..Len(a) : a[k] # b[k]}))

\* a - b for a >= b.
BigSub(a, b) == BigStrip(BigCarry(<< >> \o [j \in 1..Len(a) |-> a[j] - Limb(b, j)]))

\* a * k for 0 <= k < 2^15.
BigMulSmall(a, k) == BigStrip(BigCarry(<< >> \o [j \in 1..Len(a) |-> a[j] * k]))

\* x + y * Base^n, both evaluated before they are added.
BigMulJoin(x, y, n) ==
    CASE Evaluated(x) /\ Evaluated(y) -> BigAdd(x, [j \in 1..n |-> 0] \o y)

\* a times the limbs lo..hi of b, times Base^(lo - 1) left out: the two
\* halves of the range are multiplied apart and added.
RECURSIVE BigMulRange(_, _, _, _)
BigMulRange(a, b, lo, hi) ==
    IF lo = hi THEN BigMulSmall(a, b[lo])
    ELSE BigMulJoin(BigMulRange(a, b, lo, (lo + hi) \div 2),
                    BigMulRange(a, b, (lo + hi) \div 2 + 1, hi),
                    (lo + hi) \div 2 - lo + 1)

BigMul(a, b) ==
    IF a = << >> \/ b = << >> THEN << >> ELSE BigStrip(BigMulRange(a, b, 1, Len(b)))

\* The number of bits of n, for 0 <= n <= Base.
IntLen(n) == Cardinality({k \in 0..15 : Pow2(k) <= n})

LimbBits == IntLen(Base) - 1

\* The number of bits of a.
BigLen(a) == IF a = << >> THEN 0 ELSE LimbBits * (Len(a) - 1) + IntLen(a[Len(a)])

Zeros(n) == [j \in 1..n |-> 0]

\* a * 2^n.
BigShl(a, n) ==
    IF a = << >> THEN a
    ELSE Zeros(n \div LimbBits) \o BigMulSmall(a, Pow2(n % LimbBits))

\* floor(a / 2^n).
BigShr(a, n) ==
    LET w == n \div LimbBits
        r == n % LimbBits
    IN  IF w >= Len(a) THEN << >>
        ELSE BigStrip([j \in 1..(Len(a) - w) |->
                 (a[j + w] \div Pow2(r))
                 + (Limb(a, j + w + 1) % Pow2(r)) * Pow2(LimbBits - r)])

\* a mod 2^n.
BigLow(a, n) == BigSub(a, BigShl(BigShr(a, n), n))

BigOdd(a) == a # << >> /\ a[1] % 2 = 1

\* The number of zero bits below the lowest one bit of n, for 0 < n < Base.
IntTrailingZeros(n) == Cardinality({k \in 1..LimbBits : n % Pow2(k) = 0})

\* The same for a # 0: j - 1 whole limbs are zero, j = 1 at the call.
BigTrailingZeros(a, j) ==
    LimbBits * Cardinality({i \in j..Len(a) : \A k \in j..i : a[k] = 0})
    + IntTrailingZeros(a[j + Cardinality({i \in j..Len(a) : \A k \in j..i : a[k] = 0})])

\* One quotient bit, from the doubled remainder and the doubled quotient.
BigFracStep(r2, b, q2) ==
    IF BigCmp(r2, b) >= 0 THEN <<BigAdd(q2, <<1>>), BigSub(r2, b)>> ELSE <<q2, r2>>

\* The quotient bits of r / b after the binary point, n > 0 of them, for
\* r < b: from qr = <<the bits found before, r>> to <<quotient, remainder>>.
\* The n bits are found half by half, the first half before the second.
RECURSIVE BigFracBits(_, _, _)
BigFracBits(qr, b, n) ==
    IF Evaluated(qr) /\ n = 1
    THEN BigFracStep(BigAdd(qr[2], qr[2]), b, BigAdd(qr[1], qr[1]))
    ELSE BigFracBits(BigFracBits(qr, b, n \div 2), b, n - n \div 2)

BigFracDiv(r, b, n, q) == IF n = 0 THEN <<q, r>> ELSE BigFracBits(<<q, r>>, b, n)

RECURSIVE BigToInt(_)
BigToInt(a) == IF a = << >> THEN 0 ELSE a[1] + Base * BigToInt(Tail(a))

(***************************************************************************)
(* Floating-point values and operations.  p is the precision of the        *)
(* operation's type: 24 for float, 53 for double.                          *)
(***************************************************************************)
FloatBits == 24

DoubleBits == 53

NaN == [k |-> "nan", s |-> 0, m |-> << >>, e |-> 0]

Inf(s) == [k |-> "inf", s |-> s, m |-> << >>, e |-> 0]

Zero(s) == [k |-> "fin", s |-> s, m |-> << >>, e |-> 0]

\* (-1)^s * M * 2^e for M with tz trailing zero bits.
CanonShift(s, M, e, tz) == [k |-> "fin", s |-> s, m |-> BigShr(M, tz), e |-> e + tz]

\* (-1)^s * M * 2^e with M's trailing zero bits moved into the exponent.
Canon(s, M, e) ==
    IF M = << >> THEN Zero(s) ELSE CanonShift(s, M, e, BigTrailingZeros(M, 1))

\* q kept from the cut, cmp the comparison of the bits cut off with one half.
RoundUp(s, q, cmp, sticky, e) ==
    Canon(s, IF cmp > 0 \/ (cmp = 0 /\ (sticky \/ BigOdd(q)))
             THEN BigAdd(q, <<1>>) ELSE q, e)

\* M with its d low bits cut off (d = 0: nothing is cut).
RoundCut(s, M, sticky, e, d) ==
    IF d = 0 THEN RoundUp(s, M, -1, sticky, e)
    ELSE RoundUp(s, BigShr(M, d), BigCmp(BigLow(M, d), BigShl(<<1>>, d - 1)),
                 sticky, e + d)

Max(x, y) == IF x > y THEN x ELSE y

Min(x, y) == IF x < y THEN x ELSE y

\* (-1)^s * (M + f) * 2^e, where 0 < f < 1 if sticky and f = 0 if not,
\* rounded to p bits, to nearest, ties to even.  A sticky M has more than p
\* bits.
Round(p, s, M, sticky, e) == RoundCut(s, M, sticky, e, Max(BigLen(M) - p, 0))

IsZero(a) == a.k = "fin" /\ a.m = << >>

Neg(a) == IF a.k = "nan" THEN a ELSE [a EXCEPT !.s = 1 - a.s]

Xor(s, t) == (s + t) % 2

\* The sign and the magnitude of (-1)^sa * A + (-1)^sb * B, cmp comparing A, B.
AddSign(sa, sb, cmp) ==
    IF sa = sb THEN sa ELSE IF cmp = 0 THEN 0 ELSE IF cmp > 0 THEN sa ELSE sb

AddMag(sa, A, sb, B, cmp) ==
    IF sa = sb THEN BigAdd(A, B)
    ELSE IF cmp >= 0 THEN BigSub(A, B) ELSE BigSub(B, A)

FAddAligned(p, sa, A, sb, B, e, cmp) ==
    Round(p, AddSign(sa, sb, cmp), AddMag(sa, A, sb, B, cmp), FALSE, e)

FAddFinite(p, a, b, e) ==
    FAddAligned(p, a.s, BigShl(a.m, a.e - e), b.s, BigShl(b.m, b.e - e), e,
                BigCmp(BigShl(a.m, a.e - e), BigShl(b.m, b.e - e)))

FAdd(p, a, b) ==
    IF a.k = "nan" \/ b.k = "nan" THEN NaN
    ELSE IF a.k = "inf" THEN (IF b.k = "inf" /\ b.s # a.s THEN NaN ELSE a)
    ELSE IF b.k = "inf" THEN b
    ELSE FAddFinite(p, a, b, Min(a.e, b.e))

FSub(p, a, b) == FAdd(p, a, Neg(b))

FMul(p, a, b) ==
    IF a.k = "nan" \/ b.k = "nan" THEN NaN
    ELSE IF a.k = "inf" \/ b.k = "inf"
         THEN (IF IsZero(a) \/ IsZero(b) THEN NaN ELSE Inf(Xor(a.s, b.s)))
    ELSE Round(p, Xor(a.s, b.s), BigMul(a.m, b.m), FALSE, a.e + b.e)

\* qr is <<quotient, remainder>> of the long division.
FDivRound(p, s, qr, e) == Round(p, s, qr[1], qr[2] # << >>, e)

\* A / B for A and B of the same length in bits: the quotient's integer bit
\* is ge, p + 2 more bits follow.
FDivAligned(p, s, A, B, e, ge) ==
    FDivRound(p, s, BigFracDiv(IF ge THEN BigSub(A, B) ELSE A, B, p + 2,
                               IF ge THEN <<1>> ELSE << >>), e)

FDivFinite(p, s, am, bm, e, La, Lb) ==
    FDivAligned(p, s, BigShl(am, Max(La, Lb) - La), BigShl(bm, Max(La, Lb) - Lb),
                e + La - Lb - (p + 2),
                BigCmp(BigShl(am, Max(La, Lb) - La), BigShl(bm, Max(La, Lb) - Lb)) >= 0)

FDiv(p, a, b) ==
    IF a.k = "nan" \/ b.k = "nan" THEN NaN
    ELSE IF a.k = "inf" THEN (IF b.k = "inf" THEN NaN ELSE Inf(Xor(a.s, b.s)))
    ELSE IF b.k = "inf" THEN Zero(Xor(a.s, b.s))
    ELSE IF IsZero(b) THEN (IF IsZero(a) THEN NaN ELSE Inf(Xor(a.s, b.s)))
    ELSE IF IsZero(a) THEN Zero(Xor(a.s, b.s))
    ELSE FDivFinite(p, Xor(a.s, b.s), a.m, b.m, a.e - b.e, BigLen(a.m), BigLen(b.m))

\* A double assigned to a float.
ToFloat(a) == IF a.k = "fin" THEN Round(FloatBits, a.s, a.m, FALSE, a.e) ELSE a

\* An int converted to a type of p bits.
IntTo(p, n) == Round(p, IF n < 0 THEN 1 ELSE 0, BigOfInt(IF n < 0 THEN -n ELSE n), FALSE, 0)

\* An int or uint32_t converted to float.
IntToFloat(n) == IntTo(FloatBits, n)

\* An int converted to double (exact).
IntToDouble(n) == IntTo(DoubleBits, n)

One == IntToDouble(1)

\* The double constant 273.15 = 4805305618032230 * 2^-44.
D273_15 == Canon(0, BigAdd(BigMul(BigOfInt(480530561), BigOfInt(10000000)),
                           BigOfInt(8032230)), -44)

\* The double constant 1.8 = 8106479329266893 * 2^-52.
D1_8 == Canon(0, BigAdd(BigMul(BigOfInt(810647932), BigOfInt(10000000)),
                        BigOfInt(9266893)), -52)

\* Logarithms are computed in fixed point, in units of 2^-LogScale.
LogScale == 6 * LimbBits

\* floor(ln 2 * 2^90).
Ln2 == <<3790, 24143, 30618, 31289, 1533, 22713>>

RECURSIVE BigDivSmallFrom(_, _, _, _)
BigDivSmallFrom(a, d, j, rem) ==
    IF j = 0 THEN << >>
    ELSE BigDivSmallFrom(a, d, j - 1, (rem * Base + a[j]) % d)
         \o <<(rem * Base + a[j]) \div d>>

\* floor(a / d) for 0 < d < 2^15.
BigDivSmall(a, d) == BigStrip(BigDivSmallFrom(a, d, Len(a), 0))

\* The terms of the series that can differ from 0: for z < 1/3 the term
\* z^(2k+1) is below 2^-LogScale from k = 28 on.
AtanhTerms == 32

\* One term of the series: st is <<t, n, acc>>, the term's numerator, its
\* divisor and the sum so far; the next is <<t z^2, n + 2, acc + t/n>>.
AtanhTerm(st, z2) ==
    <<BigShr(BigMul(st[1], z2), LogScale), st[2] + 2,
      BigAdd(st[3], BigDivSmall(st[1], st[2]))>>

\* k > 0 terms from st on, half by half as in BigFracBits.
RECURSIVE AtanhSeries(_, _, _)
AtanhSeries(st, z2, k) ==
    IF Evaluated(st) /\ k = 1 THEN AtanhTerm(st, z2)
    ELSE AtanhSeries(AtanhSeries(st, z2, k \div 2), z2, k - k \div 2)

\* atanh(z) = z + z^3/3 + z^5/5 + ... for 0 <= z < 1/3, in units of
\* 2^-LogScale.
Atanh(z) ==
    AtanhSeries(<<z, 1, << >> >>, BigShr(BigMul(z, z), LogScale), AtanhTerms)[3]

\* floor(r * 2^LogScale / b) for r < b.
LogQuotient(r, b) == BigFracDiv(r, b, LogScale, << >>)[1]

\* ln(f) = 2 atanh((f - 1)/(f + 1)) for f = m / 2^(L-1) in [1, 2), m of L bits.
LogMantissa(m, L) ==
    BigShl(Atanh(LogQuotient(BigSub(m, BigShl(<<1>>, L - 1)),
                             BigAdd(m, BigShl(<<1>>, L - 1)))), 1)

\* ln(f * 2^k) = k ln 2 + ln(f), rounded to double.
LogFinite(k, lnf) ==
    IF Evaluated(lnf) /\ k >= 0
    THEN Round(DoubleBits, 0, BigAdd(BigMulSmall(Ln2, k), lnf), TRUE, 0 - LogScale)
    ELSE Round(DoubleBits, 1, BigSub(BigMulSmall(Ln2, 0 - k), lnf), TRUE, 0 - LogScale)

\* libm's log on doubles: the special arguments (NaN, negative, zero, one,
\* infinity) as C and IEEE-754 define them; elsewhere the logarithm computed to
\* 2^-85 and rounded to double.
DLog(x) ==
    IF x.k = "nan" THEN NaN
    ELSE IF IsZero(x) THEN Inf(1)
    ELSE IF x.s = 1 THEN NaN
    ELSE IF x.k = "inf" THEN Inf(0)
    ELSE IF x = One THEN Zero(0)
    ELSE LogFinite(x.e + BigLen(x.m) - 1, LogMantissa(x.m, BigLen(x.m)))

(***************************************************************************)
(* thermistor_vout_to_celsius, statement by statement: the resistance      *)
(* stored in t_resistance and the temperature returned.                    *)
(***************************************************************************)
\* A faulty divider formula: the quotient is taken over the source voltage.
DividerResistanceOverSource(th, vout) ==
    FDiv(FloatBits, FMul(FloatBits, th.serial_resistance, IntToFloat(vout)),
                    th.vsource)

DividerResistance(th, vout) ==
    FDiv(FloatBits, FMul(FloatBits, th.serial_resistance, IntToFloat(vout)),
                    FSub(FloatBits, th.vsource, IntToFloat(vout)))

\* The statements of lines 85 to 89 after steinhart = t_resistance / Ro (s1):
\* s2 is log(steinhart), s3 the division by beta, s4 the sum with
\* 1 / (To + 273.15), s5 the inversion.
SteinhartLog(s1) == ToFloat(DLog(s1))

SteinhartOverBeta(th, s2) == FDiv(FloatBits, s2, th.beta_val)

SteinhartPlusNominal(th, s3) ==
    ToFloat(FAdd(DoubleBits, s3,
                 FDiv(DoubleBits, One, FAdd(DoubleBits, th.nominal_temperature, D273_15))))

SteinhartInverted(s4) == ToFloat(FDiv(DoubleBits, One, s4))

\* A faulty conversion: the final subtraction of 273.15 is missing.
SteinhartKelvin(th, t_resistance) ==
    LET s1 == FDiv(FloatBits, t_resistance, th.nominal_resistance)
        s2 == SteinhartLog(s1)
        s3 == SteinhartOverBeta(th, s2)
        s4 == SteinhartPlusNominal(th, s3)
    IN  CASE Evaluated(s1) /\ Evaluated(s2) /\ Evaluated(s3) /\ Evaluated(s4) ->
            SteinhartInverted(s4)

\* A faulty conversion: the ratio is taken upside down (Ro/R).
SteinhartInvertedRatio(th, t_resistance) ==
    LET s1 == FDiv(FloatBits, th.nominal_resistance, t_resistance)
        s2 == SteinhartLog(s1)
        s3 == SteinhartOverBeta(th, s2)
        s4 == SteinhartPlusNominal(th, s3)
        s5 == SteinhartInverted(s4)
    IN  CASE Evaluated(s1) /\ Evaluated(s2) /\ Evaluated(s3) /\ Evaluated(s4)
             /\ Evaluated(s5) ->
            ToFloat(FSub(DoubleBits, s5, D273_15))

Steinhart(th, t_resistance) ==
    LET s1 == FDiv(FloatBits, t_resistance, th.nominal_resistance)
        s2 == SteinhartLog(s1)
        s3 == SteinhartOverBeta(th, s2)
        s4 == SteinhartPlusNominal(th, s3)
        s5 == SteinhartInverted(s4)
    IN  CASE Evaluated(s1) /\ Evaluated(s2) /\ Evaluated(s3) /\ Evaluated(s4)
             /\ Evaluated(s5) ->
            ToFloat(FSub(DoubleBits, s5, D273_15))

\* A faulty conversion: the offset is added before the scaling.
celsius_to_fahrenheit_offset_first(temp) ==
    ToFloat(FMul(DoubleBits, FAdd(DoubleBits, temp, IntToDouble(32)), D1_8))

thermistor_celsius_to_fahrenheit(temp) ==
    ToFloat(FAdd(DoubleBits, FMul(DoubleBits, temp, D1_8), IntToDouble(32)))

(***************************************************************************)
(* The driver's state.                                                     *)
(***************************************************************************)
VARIABLES
    pc,         \* where the application is: "boot", "inited", "failed", "idle",
                \* "sampling", "averaging", "read_done", "converting", "returned"
    th,         \* the thermistor_handle_t instance
    initRet,    \* what thermistor_init returned
    initEnv,    \* what the ADC driver and the calibration provider answered
                \* during thermistor_init (kept until app_main has checked it)
    caller,     \* the API function the application called
    signal,     \* the analog input during the call: [level, pattern]
    i,          \* thermistor_read_vout: loop counter
    sum,        \* thermistor_read_vout: running sum
    c,          \* thermistor_read_vout: the compensation term
    err,        \* thermistor_read_vout: result of the last adc_oneshot_read
    adc_raw,    \* thermistor_read_vout: the last sample, then the average
    reads,      \* the adc_oneshot_read calls of this thermistor_read_vout call
    cali,       \* the adc_cali_raw_to_voltage calls of this call: <<[h, raw, mv]>>
    zeroDiv,    \* this call divided the sum by a sample count of zero
    ret,        \* what thermistor_read_vout returned
    vin,        \* the vout argument of the last thermistor_vout_to_celsius
    celsius,    \* what thermistor_vout_to_celsius / thermistor_get_celsius returned
    calls,      \* the API calls completed since thermistor_init
    temp,       \* the argument of the last thermistor_celsius_to_fahrenheit
    fahrenheit, \* what thermistor_celsius_to_fahrenheit returned
    logged,     \* the line the application logged after the previous conversion,
                \* if any: <<[vout, celsius, fahrenheit, t_resistance]>>
    task        \* the tasks that call thermistor_get_celsius on the instance at
                \* the same time: for each its position and its locals

vars == <<pc, th, initRet, initEnv, caller, signal, i, sum, c, err, adc_raw,
          reads, cali, zeroDiv, ret, vin, celsius, calls, temp, fahrenheit,
          logged, task>>

\* The application's variables around thermistor_celsius_to_fahrenheit.
app == <<temp, fahrenheit, logged>>

sampling == <<signal, i, sum, c, err, adc_raw, reads, cali, zeroDiv>>

NO_OF_SAMPLES == 64

\* The API calls the application makes after thermistor_init.
MaxCalls == 2

NULL == "NULL"

None == "none"

ADC_UNIT_1 == "ADC_UNIT_1"

ADC_CHANNEL_2 == "ADC_CHANNEL_2"

\* What adc_oneshot_new_unit, adc_oneshot_config_channel, the
\* adc_cali_create_scheme_* functions and adc_oneshot_read can answer.
NewUnitResults == {"ESP_OK", "ESP_ERR_NO_MEM", "ESP_ERR_NOT_FOUND"}

ConfigChannelResults == {"ESP_OK", "ESP_ERR_INVALID_ARG"}

CreateSchemeResults == {"ESP_OK", "ESP_ERR_NOT_SUPPORTED", "ESP_ERR_NO_MEM"}

ReadErrors == {"ESP_ERR_TIMEOUT", "ESP_ERR_INVALID_ARG"}

\* The divider parameters the application configures:
\* <<serial_resistance, nominal_resistance, nominal_temperature, beta_val, vsource>>.
ParamSets ==
    { <<10000, 10000, 25, 3950, 3300>>,
      <<100000, 100000, 25, 3950, 3300>>,
      <<10000, 10000, 25, 3950, 1650>>,
      <<5000, 10000, 0, -3435, 3300>>,
      <<100, 100000, 25, 2000, 3300>> }

\* The analog input during one call: a 12-bit level and the samples that read
\* one code higher.
Levels == {0, 2047, 4094, 4095}

Patterns == {"flat", "alternate", "tail"}

Noise(pattern, j) ==
    CASE pattern = "flat"      -> 0
      [] pattern = "alternate" -> j % 2
      [] pattern = "tail"      -> IF j >= 1 THEN 1 ELSE 0

\* The largest code of the 12-bit conversion (ADC_BITWIDTH_12).
MaxCode == 4095

\* The code the ADC delivers for sample j of the call.
Sample(sig, j) == sig.level + Noise(sig.pattern, j)

\* The inputs whose samples are all 12-bit codes.
Signals ==
    {sig \in [level : Levels, pattern : Patterns] :
        \A j \in 0..(NO_OF_SAMPLES - 1) : Sample(sig, j) <= MaxCode}

\* The vout arguments of the application's direct thermistor_vout_to_celsius calls.
VoutArgs == {0, 1000, 1650, 2200, 3301}

\* The arguments of the application's direct thermistor_celsius_to_fahrenheit
\* calls, in degrees Celsius.
CelsiusArgs == {-40, -18, 0, 37, 100}

\* What (int) of a NaN double can yield: the conversion is undefined.
NaNToInt == {-2147483647 - 1, 0, 2147483647}

(***************************************************************************)
(* The calibration provider (esp_adc/adc_cali.h).  A scheme that is        *)
(* created yields a handle; a failed creation leaves the handle untouched. *)
(* The conversion is a linear fit: the 12-bit full-scale code 4095 is      *)
(* full_scale millivolts, rounded to nearest.                              *)
(***************************************************************************)
CaliHandle(scheme) == [scheme |-> scheme, full_scale |-> 3300]

\* The adc_cali_handle_t that is NULL.
NullCali == [scheme |-> NULL, full_scale |-> 0]

\* (raw * full_scale + 2047) \div 4095, computed without leaving 32 bits.
LinearFit(raw, full_scale) ==
    (raw \div 4095) * full_scale + ((raw % 4095) * full_scale + 2047) \div 4095

adc_cali_create_scheme(scheme, result, handle) ==
    IF result = "ESP_OK" THEN CaliHandle(scheme) ELSE handle

\* <<result, voltage>>: the voltage is written only on success.
adc_cali_raw_to_voltage(handle, raw, voltage) ==
    IF handle = NullCali THEN <<"ESP_ERR_INVALID_ARG", voltage>>
    ELSE <<"ESP_OK", LinearFit(raw, handle.full_scale)>>

\* A faulty adc_calibration_init: the flag is set when a scheme is attempted,
\* whatever the provider answers.
adc_calibration_init_attempted(curve, line, curveRet, lineRet) ==
    [calibrated |-> curve \/ line,
     handle |-> IF curve /\ curveRet = "ESP_OK" THEN CaliHandle("curve_fitting")
                ELSE IF line /\ lineRet = "ESP_OK" THEN CaliHandle("line_fitting")
                ELSE NullCali]

\* adc_calibration_init: [calibrated, handle].  curve and line say whether the
\* build supports the scheme (ADC_CALI_SCHEME_*_SUPPORTED); curveRet and lineRet
\* are the provider's answers.
adc_calibration_init(curve, line, curveRet, lineRet) ==
    LET h0   == NullCali
        cal0 == FALSE
        h1   == IF curve /\ ~cal0
                THEN adc_cali_create_scheme("curve_fitting", curveRet, h0) ELSE h0
        cal1 == IF curve /\ ~cal0 /\ curveRet = "ESP_OK" THEN TRUE ELSE cal0
        h2   == IF line /\ ~cal1
                THEN adc_cali_create_scheme("line_fitting", lineRet, h1) ELSE h1
        cal2 == IF line /\ ~cal1 /\ lineRet = "ESP_OK" THEN TRUE ELSE cal1
    IN  [calibrated |-> cal2, handle |-> h2]

\* The schemes the provider created during adc_calibration_init.
SchemesCreated(curve, line, curveRet, lineRet) ==
    (IF curve /\ curveRet = "ESP_OK" THEN {"curve_fitting"} ELSE {})
    \cup (IF line /\ ~(curve /\ curveRet = "ESP_OK") /\ lineRet = "ESP_OK"
          THEN {"line_fitting"} ELSE {})

\* The instance as app_main declares it: thermistor_handle_t th = {0}.
ZeroHandle ==
    [adc_h |-> NULL, channel |-> 0,
     serial_resistance |-> Zero(0), nominal_resistance |-> Zero(0),
     nominal_temperature |-> Zero(0), beta_val |-> Zero(0), vsource |-> Zero(0),
     t_resistance |-> Zero(0), vout |-> 0, calibrated |-> FALSE,
     adc_cali_h |-> NullCali]

(***************************************************************************)
(* thermistor_init.                                                        *)
(***************************************************************************)
\* A faulty return value: the result of adc_oneshot_config_channel is dropped.
InitReturnUnitOnly(unitRet, chanRet) == unitRet

InitReturn(unitRet, chanRet) == IF unitRet = "ESP_OK" THEN chanRet ELSE unitRet

InitInstance(old, unitRet, cal, channel, p) ==
    IF unitRet = "ESP_OK"
    THEN [old EXCEPT
            !.calibrated = cal.calibrated,
            !.channel = channel,
            !.adc_h = ADC_UNIT_1,
            !.adc_cali_h = cal.handle,
            !.serial_resistance = IntToFloat(p[1]),
            !.nominal_resistance = IntToFloat(p[2]),
            !.nominal_temperature = IntToFloat(p[3]),
            !.beta_val = IntToFloat(p[4]),
            !.vsource = IntToFloat(p[5]),
            !.t_resistance = Zero(0)]
    ELSE old

Init ==
    /\ pc = "boot"
    /\ th = ZeroHandle
    /\ initRet = None
    /\ initEnv = None
    /\ caller = None
    /\ signal = None
    /\ i = 0
    /\ sum = 0
    /\ c = 0
    /\ err = None
    /\ adc_raw = 0
    /\ reads = 0
    /\ cali = << >>
    /\ zeroDiv = FALSE
    /\ ret = None
    /\ vin = None
    /\ celsius = None
    /\ calls = 0
    /\ temp = None
    /\ fahrenheit = None
    /\ logged = << >>
    /\ task = << >>

thermistor_init ==
    /\ pc = "boot"
    /\ \E unitRet \in NewUnitResults, chanRet \in ConfigChannelResults,
          curve \in BOOLEAN, line \in BOOLEAN,
          curveRet \in CreateSchemeResults, lineRet \in CreateSchemeResults,
          p \in ParamSets :
          LET cal == adc_calibration_init(curve, line, curveRet, lineRet)
          IN  /\ th' = InitInstance(th, unitRet, cal, ADC_CHANNEL_2, p)
              /\ initRet' = InitReturn(unitRet, chanRet)
              /\ initEnv' = [unit |-> unitRet,
                             chan |-> IF unitRet = "ESP_OK" THEN chanRet ELSE None,
                             created |-> IF unitRet = "ESP_OK"
                                         THEN SchemesCreated(curve, line, curveRet, lineRet)
                                         ELSE {},
                             curve |-> curve, line |-> line,
                             curveRet |-> curveRet, lineRet |-> lineRet]
    /\ pc' = "inited"
    /\ UNCHANGED <<task, caller, sampling, ret, vin, celsius, calls, app>>

\* app_main: ESP_ERROR_CHECK(thermistor_init(...)) aborts on an error,
\* otherwise the polling loop starts.
app_main_check ==
    /\ pc = "inited"
    /\ pc' = IF initRet = "ESP_OK" THEN "idle" ELSE "failed"
    /\ initEnv' = None
    /\ UNCHANGED <<task, th, initRet, caller, sampling, ret, vin, celsius, calls, app>>

(***************************************************************************)
(* thermistor_read_vout.  sum, c, y and t are doubles that only ever hold  *)
(* integers below 2^53, on which double arithmetic is exact: they are      *)
(* integers here.  voltage is a non-negative int, so its conversion to the *)
(* uint32_t that is returned keeps its value.                              *)
(***************************************************************************)
ClearSampling ==
    /\ signal' = None
    /\ i' = 0
    /\ sum' = 0
    /\ c' = 0
    /\ err' = None
    /\ adc_raw' = 0
    /\ reads' = 0
    /\ cali' = << >>
    /\ zeroDiv' = FALSE

\* The application calls thermistor_read_vout or thermistor_get_celsius.
call_sampling ==
    /\ pc = "idle"
    /\ calls < MaxCalls
    /\ \E f \in {"thermistor_read_vout", "thermistor_get_celsius"}, sig \in Signals :
          /\ caller' = f
          /\ signal' = sig
    /\ pc' = "sampling"
    /\ UNCHANGED <<task, th, initRet, initEnv, i, sum, c, err, adc_raw, reads, cali,
                   zeroDiv, ret, vin, celsius, calls, app>>

\* A faulty step: y is added to the difference instead of subtracted.
KahanStepSignSlip(s, comp, raw) ==
    LET y == raw - comp
        t == s + y
    IN  <<t, (t - s) + y>>

\* One step of the compensated summation: <<sum, c>> after adding raw.
KahanStep(s, comp, raw) ==
    LET y == raw - comp
        t == s + y
    IN  <<t, (t - s) - y>>

\* One iteration of the loop with a successful adc_oneshot_read.
adc_oneshot_read_ok ==
    /\ pc = "sampling"
    /\ i < NO_OF_SAMPLES
    /\ LET raw == Sample(signal, i)
           k   == KahanStep(sum, c, raw)
       IN  /\ adc_raw' = raw
           /\ sum' = k[1]
           /\ c' = k[2]
    /\ err' = "ESP_OK"
    /\ reads' = reads + 1
    /\ i' = i + 1
    /\ pc' = IF i + 1 < NO_OF_SAMPLES THEN "sampling" ELSE "averaging"
    /\ UNCHANGED <<task, th, initRet, initEnv, caller, signal, cali, zeroDiv, ret, vin,
                   celsius, calls, app>>

\* A faulty iteration: the failing read is skipped and the loop goes on.
adc_oneshot_read_fail_continue ==
    /\ pc = "sampling"
    /\ i < NO_OF_SAMPLES
    /\ \E e \in ReadErrors : err' = e
    /\ reads' = reads + 1
    /\ i' = i + 1
    /\ pc' = IF i + 1 < NO_OF_SAMPLES THEN "sampling" ELSE "averaging"
    /\ UNCHANGED <<task, th, initRet, initEnv, caller, signal, sum, c, adc_raw, cali,
                   zeroDiv, ret, vin, celsius, calls, app>>

\* One iteration of the loop with a failing adc_oneshot_read: break.
adc_oneshot_read_fail ==
    /\ pc = "sampling"
    /\ i < NO_OF_SAMPLES
    /\ \E e \in ReadErrors : err' = e
    /\ reads' = reads + 1
    /\ pc' = "averaging"
    /\ UNCHANGED <<task, th, initRet, initEnv, caller, signal, i, sum, c, adc_raw, cali,
                   zeroDiv, ret, vin, celsius, calls, app>>

\* A faulty average: rounded to nearest instead of truncated.
AverageRounded(s, n) == IF n = 0 THEN NaNToInt ELSE {(2 * s + n) \div (2 * n)}

\* A faulty average: the sum is divided by the number of samples wanted, not
\* by the number of samples read.
AverageOfAllSamples(s, n) == IF n = 0 THEN NaNToInt ELSE {s \div NO_OF_SAMPLES}

\* adc_raw = (int)(sum/i): the truncated quotient; for i = 0 the quotient
\* 0.0/0 is a NaN whose conversion to int is undefined.
Average(s, n) == IF n = 0 THEN NaNToInt ELSE {s \div n}

\* A faulty guard: the result of the sampling loop is not looked at.
ConvertsWhenCalibrated(e, calibrated) == calibrated

\* A faulty guard: the calibrated flag is not looked at.
ConvertsAfterFullRead(e, calibrated) == e = "ESP_OK"

\* Whether the averaged code is converted to millivolts.
Converts(e, calibrated) == e = "ESP_OK" /\ calibrated

\* The statements after the loop, up to the return.
read_vout_return ==
    /\ pc = "averaging"
    /\ \E avg \in Average(sum, i) :
          LET conv == adc_cali_raw_to_voltage(th.adc_cali_h, avg, 0)
              voltage == IF Converts(err, th.calibrated) THEN conv[2] ELSE 0
          IN  /\ adc_raw' = avg
              /\ cali' = IF Converts(err, th.calibrated)
                         THEN Append(cali, [h |-> th.adc_cali_h, raw |-> avg,
                                            result |-> conv[1], mv |-> conv[2]])
                         ELSE cali
              /\ ret' = voltage
    /\ zeroDiv' = (i = 0)
    /\ pc' = "read_done"
    /\ UNCHANGED <<task, th, initRet, initEnv, caller, signal, i, sum, c, err, reads,
                   vin, celsius, calls, app>>

\* thermistor_read_vout has returned to the application.
read_vout_done ==
    /\ pc = "read_done"
    /\ caller = "thermistor_read_vout"
    /\ pc' = "idle"
    /\ calls' = calls + 1
    /\ caller' = None
    /\ ret' = None
    /\ ClearSampling
    /\ UNCHANGED <<task, th, initRet, initEnv, vin, celsius, app>>

(***************************************************************************)
(* thermistor_get_celsius and thermistor_vout_to_celsius.                  *)
(***************************************************************************)
\* A faulty thermistor_get_celsius: the argument of the conversion is taken
\* from th->vout before the sampled voltage is stored there.
get_celsius_store_stale_argument ==
    /\ pc = "read_done"
    /\ caller = "thermistor_get_celsius"
    /\ th' = [th EXCEPT !.vout = ret]
    /\ vin' = th.vout
    /\ pc' = "converting"
    /\ ClearSampling
    /\ UNCHANGED <<task, initRet, initEnv, caller, ret, celsius, calls, app>>

\* A faulty thermistor_get_celsius: the sampled voltage is handed to the
\* conversion without being stored in th->vout.
get_celsius_without_store ==
    /\ pc = "read_done"
    /\ caller = "thermistor_get_celsius"
    /\ vin' = ret
    /\ pc' = "converting"
    /\ ClearSampling
    /\ UNCHANGED <<task, th, initRet, initEnv, caller, ret, celsius, calls, app>>

\* thermistor_get_celsius: th->vout = thermistor_read_vout(th), then the call
\* thermistor_vout_to_celsius(th, th->vout).
get_celsius_store ==
    /\ pc = "read_done"
    /\ caller = "thermistor_get_celsius"
    /\ th' = [th EXCEPT !.vout = ret]
    /\ vin' = ret
    /\ pc' = "converting"
    /\ ClearSampling
    /\ UNCHANGED <<task, initRet, initEnv, caller, ret, celsius, calls, app>>

\* The application calls thermistor_vout_to_celsius itself.
call_vout_to_celsius ==
    /\ pc = "idle"
    /\ calls < MaxCalls
    /\ \E v \in VoutArgs : vin' = v
    /\ caller' = "thermistor_vout_to_celsius"
    /\ pc' = "converting"
    /\ UNCHANGED <<task, th, initRet, initEnv, sampling, ret, celsius, calls, app>>

\* A faulty thermistor_vout_to_celsius: the resistance is stored in
\* nominal_resistance instead of t_resistance.
vout_to_celsius_wrong_field ==
    /\ pc = "converting"
    /\ \E r \in {DividerResistance(th, vin)} :
          /\ th' = [th EXCEPT !.nominal_resistance = r]
          /\ celsius' = Steinhart(th, r)
    /\ pc' = "returned"
    /\ UNCHANGED <<task, initRet, initEnv, caller, sampling, ret, vin, calls, app>>

\* The body of thermistor_vout_to_celsius for the argument vin: t_resistance
\* is stored, the temperature is returned (to the application, or through
\* thermistor_get_celsius).
thermistor_vout_to_celsius ==
    /\ pc = "converting"
    /\ \E r \in {DividerResistance(th, vin)} :
          /\ th' = [th EXCEPT !.t_resistance = r]
          /\ celsius' = Steinhart(th, r)
    /\ pc' = "returned"
    /\ UNCHANGED <<task, initRet, initEnv, caller, sampling, ret, vin, calls, app>>

\* app_main: float fahrenheit = thermistor_celsius_to_fahrenheit(celsius).
app_main_fahrenheit ==
    /\ pc = "returned"
    /\ temp' = celsius
    /\ pc' = "to_fahrenheit"
    /\ UNCHANGED <<task, th, initRet, initEnv, caller, sampling, ret, vin, celsius, calls,
                   fahrenheit, logged>>

\* The application calls thermistor_celsius_to_fahrenheit itself.
call_celsius_to_fahrenheit ==
    /\ pc = "idle"
    /\ calls < MaxCalls
    /\ \E t \in CelsiusArgs : temp' = IntToFloat(t)
    /\ caller' = "thermistor_celsius_to_fahrenheit"
    /\ pc' = "to_fahrenheit"
    /\ UNCHANGED <<task, th, initRet, initEnv, sampling, ret, vin, celsius, calls,
                   fahrenheit, logged>>

\* The body of thermistor_celsius_to_fahrenheit for the argument temp.
celsius_to_fahrenheit_return ==
    /\ pc = "to_fahrenheit"
    /\ fahrenheit' = thermistor_celsius_to_fahrenheit(temp)
    /\ pc' = "fahrenheit_done"
    /\ UNCHANGED <<task, th, initRet, initEnv, caller, sampling, ret, vin, celsius, calls,
                   temp, logged>>

\* What ESP_LOGI prints in app_main's loop.
LogLine(t, cel, fah) ==
    [vout |-> t.vout, celsius |-> cel, fahrenheit |-> fah,
     t_resistance |-> t.t_resistance]

\* app_main's loop body after the calls: log, LED, vTaskDelay.
app_main_loop ==
    /\ pc = "fahrenheit_done"
    /\ logged' = IF caller = "thermistor_celsius_to_fahrenheit" THEN logged
                 ELSE <<LogLine(th, celsius, fahrenheit)>>
    /\ pc' = "idle"
    /\ calls' = calls + 1
    /\ caller' = None
    /\ ret' = None
    /\ vin' = None
    /\ celsius' = None
    /\ temp' = None
    /\ fahrenheit' = None
    /\ UNCHANGED <<task, th, initRet, initEnv, sampling>>

Next ==
    \/ thermistor_init
    \/ app_main_check
    \/ call_sampling
    \/ adc_oneshot_read_ok
    \/ adc_oneshot_read_fail
    \/ read_vout_return
    \/ read_vout_done
    \/ get_celsius_store
    \/ call_vout_to_celsius
    \/ thermistor_vout_to_celsius
    \/ app_main_fahrenheit
    \/ call_celsius_to_fahrenheit
    \/ celsius_to_fahrenheit_return
    \/ app_main_loop

Spec == Init /\ [][Next]_vars

(***************************************************************************)
(* The earlier thermistor_read_vout: the codes of adc1_get_raw are added   *)
(* in a uint32_t and the sum is divided by NO_OF_SAMPLES.  The sum of 64   *)
(* codes of 12 bits stays below 2^18, far from the 32 bits of adc_reading. *)
(***************************************************************************)
\* adc_reading after n iterations of the loop.
RECURSIVE adc_reading_from(_, _, _)
adc_reading_from(sig, j, n) ==
    IF n = 0 THEN 0
    ELSE IF n = 1 THEN Sample(sig, j)
    ELSE adc_reading_from(sig, j, n \div 2)
         + adc_reading_from(sig, j + n \div 2, n - n \div 2)

adc_reading(sig, n) == adc_reading_from(sig, 0, n)

\* The code handed to esp_adc_cal_raw_to_voltage: adc_reading /= NO_OF_SAMPLES.
thermistor_read_vout_plain(sig) == adc_reading(sig, NO_OF_SAMPLES) \div NO_OF_SAMPLES

(***************************************************************************)
(* Two tasks that call thermistor_get_celsius on one instance without any  *)
(* lock.  A step is one access to the instance: the locals of a task       *)
(* (the sampling loop of thermistor_read_vout, the argument vout, the      *)
(* resistance just computed) are its own, th->vout and th->t_resistance    *)
(* are shared.  A load that follows the task's own store of the same       *)
(* field races with the other task's store: it yields either what is in    *)
(* memory or the value the task has just stored (kept in a register).      *)
(* The sampling loop works on the task's locals and reads only fields that *)
(* no call writes, so its steps commute with every step of the other task: *)
(* the tasks run their loops one at a time, and the accesses to th->vout   *)
(* and th->t_resistance interleave in every order.                         *)
(***************************************************************************)
Tasks == {1, 2}

\* The thermistor_get_celsius calls each task makes.
MaxTaskCalls == 1

TaskParamSets == {<<10000, 10000, 25, 3950, 3300>>}

\* The inputs during the tasks' calls: 0 mV, 1650 mV and 3299 mV.
TaskSignals == {sig \in Signals : sig.pattern = "flat" /\ sig.level # MaxCode}

\* A task outside thermistor_get_celsius.
TaskIdle ==
    [pc |-> "idle", signal |-> None, i |-> 0, sum |-> 0, c |-> 0, err |-> None,
     adc_raw |-> 0, ret |-> None, vin |-> None, r |-> None, celsius |-> None,
     calls |-> 0, overwritten |-> FALSE]

\* The instance after a thermistor_init that succeeded, calibration included.
InitTasks ==
    /\ pc = "tasks"
    /\ \E p \in TaskParamSets :
          th = InitInstance(ZeroHandle, "ESP_OK",
                            adc_calibration_init(TRUE, TRUE, "ESP_OK", "ESP_OK"),
                            ADC_CHANNEL_2, p)
    /\ initRet = "ESP_OK"
    /\ initEnv = None
    /\ caller = None
    /\ signal = None
    /\ i = 0
    /\ sum = 0
    /\ c = 0
    /\ err = None
    /\ adc_raw = 0
    /\ reads = 0
    /\ cali = << >>
    /\ zeroDiv = FALSE
    /\ ret = None
    /\ vin = None
    /\ celsius = None
    /\ calls = 0
    /\ temp = None
    /\ fahrenheit = None
    /\ logged = << >>
    /\ task = [t \in Tasks |-> TaskIdle]

\* What the tasks leave alone.
sequential ==
    <<pc, initRet, initEnv, caller, sampling, ret, vin, celsius, calls, app>>

\* No other task is inside the sampling loop of thermistor_read_vout.
Runs(t) == \A u \in Tasks \ {t} : task[u].pc \notin {"sampling", "averaging"}

\* Task u has stored field and not loaded it back yet (its position is at),
\* and another task stores the same field now.
Overwrite(u, t, at) ==
    [task[u] EXCEPT !.overwritten = @ \/ (u # t /\ task[u].pc = at)]

\* Task t calls thermistor_get_celsius, which calls thermistor_read_vout.
task_call_get_celsius(t) ==
    /\ Runs(t)
    /\ task[t].pc = "idle"
    /\ task[t].calls < MaxTaskCalls
    /\ \E sig \in TaskSignals :
          task' = [task EXCEPT ![t] = [TaskIdle EXCEPT !.pc = "sampling",
                                                      !.signal = sig,
                                                      !.calls = task[t].calls]]
    /\ UNCHANGED <<th, sequential>>

\* One iteration of the loop with a successful adc_oneshot_read.
task_read_ok(t) ==
    /\ Runs(t)
    /\ task[t].pc = "sampling"
    /\ task[t].i < NO_OF_SAMPLES
    /\ LET raw == Sample(task[t].signal, task[t].i)
           k   == KahanStep(task[t].sum, task[t].c, raw)
       IN  task' = [task EXCEPT ![t].adc_raw = raw,
                                ![t].sum = k[1],
                                ![t].c = k[2],
                                ![t].err = "ESP_OK",
                                ![t].i = @ + 1,
                                ![t].pc = IF task[t].i + 1 < NO_OF_SAMPLES
                                          THEN "sampling" ELSE "averaging"]
    /\ UNCHANGED <<th, sequential>>

\* One iteration of the loop with a failing adc_oneshot_read: break.
task_read_fail(t) ==
    /\ Runs(t)
    /\ task[t].pc = "sampling"
    /\ task[t].i < NO_OF_SAMPLES
    /\ \E e \in ReadErrors :
          task' = [task EXCEPT ![t].err = e, ![t].pc = "averaging"]
    /\ UNCHANGED <<th, sequential>>

\* The statements of thermistor_read_vout after the loop, up to the return:
\* the locals of the call are gone, the voltage is returned.
task_read_return(t) ==
    /\ Runs(t)
    /\ task[t].pc = "averaging"
    /\ \E avg \in Average(task[t].sum, task[t].i) :
          task' = [task EXCEPT ![t] =
                      [TaskIdle EXCEPT
                          !.ret = IF Converts(task[t].err, th.calibrated)
                                  THEN adc_cali_raw_to_voltage(th.adc_cali_h, avg, 0)[2]
                                  ELSE 0,
                          !.calls = task[t].calls,
                          !.pc = "read_done"]]
    /\ UNCHANGED <<th, sequential>>

\* A faulty store: the sampled voltage never reaches th->vout.
task_store_vout_dropped(t) ==
    /\ Runs(t)
    /\ task[t].pc = "read_done"
    /\ task' = [task EXCEPT ![t].pc = "stored"]
    /\ UNCHANGED <<th, sequential>>

\* th->vout = thermistor_read_vout(th).
task_store_vout(t) ==
    /\ Runs(t)
    /\ task[t].pc = "read_done"
    /\ th' = [th EXCEPT !.vout = task[t].ret]
    /\ task' = [u \in Tasks |->
                   IF u = t THEN [task[t] EXCEPT !.pc = "stored"]
                   ELSE Overwrite(u, t, "stored")]
    /\ UNCHANGED sequential

\* The argument th->vout of the call thermistor_vout_to_celsius(th, th->vout).
task_load_vout(t) ==
    /\ Runs(t)
    /\ task[t].pc = "stored"
    /\ \E v \in {th.vout, task[t].ret} :
          task' = [task EXCEPT ![t].vin = v, ![t].pc = "converting"]
    /\ UNCHANGED <<th, sequential>>

\* th->t_resistance = (th->serial_resistance * vout) / (th->vsource - vout).
task_store_resistance(t) ==
    /\ Runs(t)
    /\ task[t].pc = "converting"
    /\ \E r \in {DividerResistance(th, task[t].vin)} :
          /\ th' = [th EXCEPT !.t_resistance = r]
          /\ task' = [u \in Tasks |->
                         IF u = t THEN [task[t] EXCEPT !.r = r, !.pc = "resistance_stored"]
                         ELSE Overwrite(u, t, "resistance_stored")]
    /\ UNCHANGED sequential

\* steinhart = th->t_resistance / th->nominal_resistance and the statements
\* after it, up to the return of thermistor_get_celsius.
task_steinhart(t) ==
    /\ Runs(t)
    /\ task[t].pc = "resistance_stored"
    /\ \E r \in {th.t_resistance, task[t].r} :
          task' = [task EXCEPT ![t].celsius = Steinhart(th, r), ![t].pc = "returned"]
    /\ UNCHANGED <<th, sequential>>

\* The task goes on with the temperature.
task_loop(t) ==
    /\ Runs(t)
    /\ task[t].pc = "returned"
    /\ task' = [task EXCEPT ![t].pc = "idle", ![t].calls = @ + 1]
    /\ UNCHANGED <<th, sequential>>

NextTasks ==
    \E t \in Tasks :
        \/ task_call_get_celsius(t)
        \/ task_read_ok(t)
        \/ task_read_fail(t)
        \/ task_read_return(t)
        \/ task_store_vout(t)
        \/ task_load_vout(t)
        \/ task_store_resistance(t)
        \/ task_steinhart(t)
        \/ task_loop(t)

SpecTasks == InitTasks /\ [][NextTasks]_vars

(***************************************************************************)
(* Properties.  A call is observed where it has just returned:             *)
(* thermistor_init at pc = "inited", thermistor_read_vout at               *)
(* pc = "read_done", thermistor_vout_to_celsius and thermistor_get_celsius *)
(* at pc = "returned".                                                     *)
(***************************************************************************)
\* A calibration scheme was created during thermistor_init.
SchemeCreated ==
    \/ initEnv.curve /\ initEnv.curveRet = "ESP_OK"
    \/ initEnv.line /\ initEnv.lineRet = "ESP_OK"

\* C1: thermistor_init returns ESP_OK whenever the ADC unit is created and the
\* channel is configured, whatever the calibration provider answers, and the
\* instance's calibrated flag is true exactly when a scheme was created.
C1_InitToleratesCalibration ==
    (pc = "inited" /\ initEnv.unit = "ESP_OK" /\ initEnv.chan = "ESP_OK") =>
        /\ initRet = "ESP_OK"
        /\ th.calibrated <=> SchemeCreated
        /\ th.calibrated <=> initEnv.created # {}
        /\ th.calibrated <=> th.adc_cali_h # NullCali

\* thermistor_init has returned ESP_OK although both schemes were refused.
C1_Witness ==
    /\ pc = "inited"
    /\ initEnv.unit = "ESP_OK" /\ initEnv.chan = "ESP_OK"
    /\ initEnv.curve /\ initEnv.curveRet = "ESP_ERR_NOT_SUPPORTED"
    /\ initEnv.line /\ initEnv.lineRet = "ESP_ERR_NO_MEM"
    /\ initRet = "ESP_OK"
    /\ ~th.calibrated

\* C2: thermistor_init returns an error exactly when adc_oneshot_new_unit or
\* adc_oneshot_config_channel fails, and the error returned is the one the
\* failing operation reported.
C2_InitReturnsAdcError ==
    pc = "inited" =>
        /\ initRet # "ESP_OK" <=>
              (initEnv.unit # "ESP_OK" \/ initEnv.chan \notin {"ESP_OK", None})
        /\ initEnv.unit # "ESP_OK" => initRet = initEnv.unit
        /\ (initEnv.unit = "ESP_OK" /\ initEnv.chan # "ESP_OK") =>
              initRet = initEnv.chan

\* The unit was created, the channel configuration failed, and its error is
\* what thermistor_init returned.
C2_Witness ==
    /\ pc = "inited"
    /\ initEnv.unit = "ESP_OK"
    /\ initEnv.chan = "ESP_ERR_INVALID_ARG"
    /\ initRet = "ESP_ERR_INVALID_ARG"

\* The sum of the first n codes the ADC delivers for the signal.
RECURSIVE SampleSumFrom(_, _, _)
SampleSumFrom(sig, j, n) ==
    IF n = 0 THEN 0
    ELSE IF n = 1 THEN Sample(sig, j)
    ELSE SampleSumFrom(sig, j, n \div 2) + SampleSumFrom(sig, j + n \div 2, n - n \div 2)

SampleSum(sig, n) == SampleSumFrom(sig, 0, n)

\* C3: on a calibrated instance, a thermistor_read_vout call whose reads all
\* succeed makes exactly 64 ADC reads, then exactly one calibration conversion,
\* of the truncated mean of the 64 codes with the instance's handle, and
\* returns the millivolts of that conversion.
C3_FullReadConvertsTruncatedMean ==
    (pc = "read_done" /\ th.calibrated /\ err = "ESP_OK") =>
        /\ reads = 64
        /\ Len(cali) = 1
        /\ cali[1].h = th.adc_cali_h
        /\ cali[1].raw = SampleSum(signal, 64) \div 64
        /\ cali[1].result = "ESP_OK"
        /\ ret = cali[1].mv
        /\ ret = LinearFit(SampleSum(signal, 64) \div 64, 3300)

\* 63 of the 64 samples read 2048 and one 2047: the mean 2047.98 is truncated
\* to 2047, which is 1650 mV.
C3_Witness ==
    /\ pc = "read_done" /\ th.calibrated /\ err = "ESP_OK"
    /\ signal = [level |-> 2047, pattern |-> "tail"]
    /\ reads = 64
    /\ cali = <<[h |-> th.adc_cali_h, raw |-> 2047, result |-> "ESP_OK", mv |-> 1650]>>
    /\ ret = 1650

\* A read of the call failed after at least one sample, on a calibrated
\* instance.
PartialRead ==
    pc = "read_done" /\ th.calibrated /\ err # "ESP_OK" /\ i >= 1 /\ i < 64

\* C4: when a read fails after k successful reads (1 <= k < 64) on a
\* calibrated instance, thermistor_read_vout stops sampling and averages the k
\* samples it has, but it makes no calibration conversion and returns 0.
C4_PartialReadReturnsZero ==
    PartialRead =>
        /\ reads = i + 1
        /\ adc_raw = SampleSum(signal, i) \div i
        /\ cali = << >>
        /\ ret = 0

\* The sixth read failed: the five samples of 2047 average to 2047, which is
\* not converted.
C4_Witness ==
    /\ PartialRead
    /\ err = "ESP_ERR_TIMEOUT"
    /\ signal = [level |-> 2047, pattern |-> "flat"]
    /\ i = 5
    /\ adc_raw = 2047
    /\ ret = 0

\* C4 as the specification states it: the value returned after a failed read is
\* the millivolt conversion of the average of the k samples obtained.
C4_PartialReadReturnsConversion ==
    PartialRead =>
        ret = adc_cali_raw_to_voltage(th.adc_cali_h, SampleSum(signal, i) \div i, 0)[2]

\* C5: when the first read of a thermistor_read_vout call fails, the call
\* divides by no sample count of zero and reports a sampling failure instead
\* of a voltage.
C5_NoAverageOfZeroSamples ==
    (pc = "read_done" /\ i = 0) => (~zeroDiv /\ ret \notin Nat)

\* C6: on an instance that is not calibrated, what a thermistor_read_vout call
\* returns after its 64 reads differs from the 0 that a calibrated read returns
\* for 0 mV.
C6_UncalibratedReadDistinguishable ==
    (pc = "read_done" /\ ~th.calibrated /\ err = "ESP_OK") => ret # 0

\* The value of a float that holds an integer.
FloatToInt(x) == (IF x.s = 1 THEN -1 ELSE 1) * BigToInt(BigShl(x.m, x.e))

\* A return value that signals a domain error: neither a number, nor an
\* infinity, nor a NaN.
IsDomainError(x) == x.k \notin {"fin", "inf", "nan"}

\* C7: when the voltage read inside thermistor_get_celsius is greater than or
\* equal to vsource, thermistor_get_celsius signals a domain error.
C7_DomainErrorAtSourceVoltage ==
    (pc = "returned" /\ caller = "thermistor_get_celsius"
        /\ vin >= FloatToInt(th.vsource)) => IsDomainError(celsius)

\* C8: when the resistance computed from vout is not strictly positive, the
\* conversion signals a domain error.
C8_DomainErrorAtNonPositiveResistance ==
    (pc = "returned" /\ th.t_resistance.k = "fin"
        /\ (IsZero(th.t_resistance) \/ th.t_resistance.s = 1)) =>
        IsDomainError(celsius)

\* |R * D - P| <= P * (2^-23 + 2^-48) for a finite R >= 0: R is P / D up to
\* the two roundings of float arithmetic (of the product and of the quotient).
\* Both sides are scaled by 2^48 and by 2^sh, which makes R an integer.
QuotientOfFloats(R, P, D) ==
    /\ R.k = "fin"
    /\ R.s = 0
    /\ LET sh == Max(0 - R.e, 0)
           RD == BigMul(BigShl(R.m, Max(R.e, 0)), BigOfInt(D))
           PP == BigShl(BigOfInt(P), sh)
           diff == IF BigCmp(RD, PP) >= 0 THEN BigSub(RD, PP) ELSE BigSub(PP, RD)
       IN  BigCmp(BigShl(diff, 48), BigMul(PP, BigOfInt(2^25 + 1))) <= 0

\* C9: for 0 <= vout < vsource, thermistor_vout_to_celsius stores
\* t_resistance = serial_resistance * vout / (vsource - vout), computed in
\* float; serial_resistance = 10000, vsource = 3300 and vout = 1650 give 10000.
C9_DividerResistance ==
    (pc = "returned" /\ vin >= 0 /\ vin < FloatToInt(th.vsource)) =>
        /\ QuotientOfFloats(th.t_resistance,
                            FloatToInt(th.serial_resistance) * vin,
                            FloatToInt(th.vsource) - vin)
        /\ (FloatToInt(th.serial_resistance) = 10000
               /\ FloatToInt(th.vsource) = 3300 /\ vin = 1650) =>
              th.t_resistance = IntToFloat(10000)

\* 10000 * 1000 / 2300 = 4347.826...: the float stored is 4347.826171875.
C9_Witness ==
    /\ pc = "returned"
    /\ vin = 1000
    /\ FloatToInt(th.serial_resistance) = 10000
    /\ FloatToInt(th.vsource) = 3300
    /\ th.t_resistance = Canon(0, BigOfInt(8904348), -11)

\* a <= b for floats that are not NaN.
FLe(a, b) == FSub(DoubleBits, b, a).s = 0 \/ IsZero(FSub(DoubleBits, b, a))

FAbs(a) == [a EXCEPT !.s = 0]

\* The conversion was made at the nominal point.
AtNominalPoint ==
    pc = "returned" /\ th.t_resistance = th.nominal_resistance /\ ~IsZero(th.beta_val)

\* C10: when the computed resistance equals nominal_resistance, the temperature
\* returned is nominal_temperature up to the float roundings of the reciprocal
\* Kelvin temperature, of the Kelvin temperature and of the result:
\* |T - nominal_temperature| <= (nominal_temperature + 273.15) * 2^-22.
C10_NominalPointWithinRounding ==
    AtNominalPoint =>
        /\ celsius.k = "fin"
        /\ FLe(FAbs(FSub(DoubleBits, celsius, th.nominal_temperature)),
               FMul(DoubleBits, FAdd(DoubleBits, th.nominal_temperature, D273_15),
                    Canon(0, <<1>>, -22)))

\* nominal_resistance = 100000, nominal_temperature = 25, beta_val = 3950: the
\* temperature returned is 24.99999427795410156250 = 13107197 * 2^-19.
C10_Witness ==
    /\ AtNominalPoint
    /\ th.nominal_resistance = IntToFloat(100000)
    /\ th.nominal_temperature = IntToFloat(25)
    /\ th.beta_val = IntToFloat(3950)
    /\ celsius = Canon(0, BigOfInt(13107197), -19)

\* C10 as the specification states it: at the nominal point the temperature
\* returned equals nominal_temperature.
C10_NominalPointExact ==
    AtNominalPoint => celsius = th.nominal_temperature

\* a < b for floats that are not NaN.
FLt(a, b) == FLe(a, b) /\ ~FLe(b, a)

\* A resistance that a voltage with 0 < vout < vsource yields.
PositiveResistance(r) == r.k = "fin" /\ r.s = 0 /\ ~IsZero(r)

\* Two conversions were made one after the other on an instance with
\* beta_val > 0, both of a strictly positive resistance: the one logged and
\* the one that has just returned.
TwoConversions ==
    /\ pc = "returned"
    /\ Len(logged) = 1
    /\ th.beta_val.s = 0 /\ ~IsZero(th.beta_val)
    /\ PositiveResistance(logged[1].t_resistance)
    /\ PositiveResistance(th.t_resistance)

\* A temperature that is not below absolute zero.
AboveAbsoluteZero(t) == t.k # "nan" /\ FLe(Neg(D273_15), t)

\* C11: for beta_val > 0 and two voltages whose resistances R1 < R2 are
\* strictly positive, the temperature for R1 is not lower than the temperature
\* for R2, provided neither computed temperature is below -273.15 (the
\* reciprocal Kelvin temperature ln(R/Ro)/beta + 1/(To + 273.15) is positive
\* for both).
C11_DecreasingAboveAbsoluteZero ==
    (TwoConversions /\ AboveAbsoluteZero(logged[1].celsius) /\ AboveAbsoluteZero(celsius)) =>
        /\ FLt(logged[1].t_resistance, th.t_resistance) => FLe(celsius, logged[1].celsius)
        /\ FLt(th.t_resistance, logged[1].t_resistance) => FLe(logged[1].celsius, celsius)

\* serial_resistance = 10000, nominal_resistance = 10000, beta_val = 3950:
\* 1000 mV (4347.8 ohm) was converted after 2200 mV (20000 ohm), and its
\* temperature is the higher one.
C11_Witness ==
    /\ TwoConversions
    /\ th.serial_resistance = IntToFloat(10000)
    /\ th.nominal_resistance = IntToFloat(10000)
    /\ th.vsource = IntToFloat(3300)
    /\ logged[1].t_resistance = IntToFloat(20000)
    /\ vin = 1000
    /\ AboveAbsoluteZero(logged[1].celsius) /\ AboveAbsoluteZero(celsius)
    /\ FLt(logged[1].celsius, celsius)

\* C11 as the specification states it: for beta_val > 0 the temperature is a
\* strictly decreasing function of the resistance, R1 < R2 gives T1 > T2.
C11_StrictlyDecreasing ==
    TwoConversions =>
        /\ FLt(logged[1].t_resistance, th.t_resistance) => FLt(celsius, logged[1].celsius)
        /\ FLt(th.t_resistance, logged[1].t_resistance) => FLt(logged[1].celsius, celsius)

\* |5 * F - (9 * C + 160)|, computed without rounding (200 bits hold every
\* value exactly).
AffineError(C, F) ==
    FAbs(FSub(200, FMul(200, IntTo(200, 5), F),
                   FAdd(200, FMul(200, IntTo(200, 9), C), IntTo(200, 160))))

\* The error the roundings of the double product and sum and of the float
\* result allow, times 5: 5 * |F| * 2^-24 + (9 * |C| + 160) * 2^-50.
AffineTolerance(C, F) ==
    FAdd(200, FMul(200, FAbs(F), Canon(0, <<5>>, -24)),
              FMul(200, FAdd(200, FMul(200, IntTo(200, 9), FAbs(C)), IntTo(200, 160)),
                        Canon(0, <<1>>, -50)))

\* F is C * 1.8 + 32 in float arithmetic; 0, 100 and -40 map exactly.
IsFahrenheitOf(C, F) ==
    /\ F.k = C.k
    /\ C.k = "fin" => FLe(AffineError(C, F), AffineTolerance(C, F))
    /\ C = IntToFloat(0) => F = IntToFloat(32)
    /\ C = IntToFloat(100) => F = IntToFloat(212)
    /\ C = IntToFloat(-40) => F = IntToFloat(-40)

\* C12: every thermistor_celsius_to_fahrenheit call returns temp * 1.8 + 32
\* (32 for 0, 212 for 100, -40 for -40), a number whenever temp is one, and
\* leaves the instance as it was.
C12_FahrenheitAffineAndPure ==
    [][(pc = "to_fahrenheit" /\ pc' = "fahrenheit_done") =>
          /\ IsFahrenheitOf(temp, fahrenheit')
          /\ th' = th]_vars

\* 100 degrees Celsius were converted to 212 degrees Fahrenheit.
C12_Witness ==
    /\ pc = "fahrenheit_done"
    /\ caller = "thermistor_celsius_to_fahrenheit"
    /\ temp = IntToFloat(100)
    /\ fahrenheit = IntToFloat(212)

\* C13: when the n samples read by a thermistor_read_vout call (1 <= n <= 64)
\* are all the same code k, the averaged raw code is k.
C13_AverageOfEqualSamples ==
    (pc = "read_done" /\ i >= 1 /\ signal.pattern = "flat") => adc_raw = signal.level

\* 17 samples of 4095 were read before a read failed: their average is 4095.
C13_Witness ==
    /\ pc = "read_done"
    /\ signal = [level |-> 4095, pattern |-> "flat"]
    /\ i = 17
    /\ err # "ESP_OK"
    /\ adc_raw = 4095

\* C14: thermistor_get_celsius stores the millivolts that its
\* thermistor_read_vout call returned in vout before the conversion starts, and
\* when it returns, t_resistance is the divider resistance of the stored vout
\* and the temperature returned is the conversion of the stored vout.
C14_GetCelsiusSamplesThenConverts ==
    /\ (pc = "converting" /\ caller = "thermistor_get_celsius") =>
          /\ ret \in Nat
          /\ th.vout = ret
          /\ vin = th.vout
    /\ (pc = "returned" /\ caller = "thermistor_get_celsius") =>
          /\ ret \in Nat
          /\ th.vout = ret
          /\ vin = th.vout
          /\ th.t_resistance = DividerResistance(th, th.vout)
          /\ celsius = Steinhart(th, DividerResistance(th, th.vout))

\* The second thermistor_get_celsius call sampled 1650 mV after the first had
\* sampled 3299 mV: vout is 1650, t_resistance 10000 ohm and the temperature
\* 24.9999943.
C14_Witness ==
    /\ pc = "returned" /\ caller = "thermistor_get_celsius"
    /\ Len(logged) = 1 /\ logged[1].vout = 3299
    /\ th.vout = 1650
    /\ th.serial_resistance = IntToFloat(10000)
    /\ th.nominal_resistance = IntToFloat(10000)
    /\ th.t_resistance = IntToFloat(10000)
    /\ celsius = Canon(0, BigOfInt(13107197), -19)

\* C15: thermistor_get_celsius overwrites the stored vout with the millivolts
\* its thermistor_read_vout call returned; a thermistor_read_vout call made
\* directly returns the millivolts and leaves the stored vout as it was.
C15_VoutWrittenByGetCelsiusOnly ==
    [][/\ (pc = "read_done" /\ caller = "thermistor_get_celsius") => th'.vout = ret
       /\ (caller = "thermistor_read_vout" \/ caller' = "thermistor_read_vout") =>
             th'.vout = th.vout]_vars

\* A direct thermistor_read_vout call has returned 1650 mV; the stored vout is
\* still the 3299 mV of the thermistor_get_celsius call before it.
C15_Witness ==
    /\ pc = "read_done"
    /\ caller = "thermistor_read_vout"
    /\ ret = 1650
    /\ th.vout = 3299

\* C15 as the specification states it: after any thermistor_read_vout call,
\* made directly or through thermistor_get_celsius, the stored vout is the
\* value the call returned.
C15_VoutIsLastReadVout ==
    /\ (pc = "read_done" /\ caller = "thermistor_read_vout") => th.vout = ret
    /\ (pc \in {"converting", "returned"} /\ caller = "thermistor_get_celsius") =>
          th.vout = ret

\* The fields of the instance that thermistor_init configures.
Configured(t) ==
    <<t.channel, t.serial_resistance, t.nominal_resistance, t.nominal_temperature,
      t.beta_val, t.vsource, t.calibrated, t.adc_h, t.adc_cali_h>>

\* C16: once thermistor_init has returned ESP_OK, no step of a
\* thermistor_read_vout, thermistor_vout_to_celsius, thermistor_get_celsius or
\* thermistor_celsius_to_fahrenheit call changes channel, serial_resistance,
\* nominal_resistance, nominal_temperature, beta_val, vsource, calibrated, the
\* ADC handle or the calibration handle.
C16_ConfigurationIsNeverWritten ==
    [][(pc # "boot" /\ initRet = "ESP_OK") => Configured(th') = Configured(th)]_vars

\* The second call after thermistor_init, a thermistor_get_celsius, has written
\* vout and t_resistance; the configured fields are what thermistor_init set.
C16_Witness ==
    /\ pc = "fahrenheit_done"
    /\ caller = "thermistor_get_celsius"
    /\ initRet = "ESP_OK"
    /\ calls = 1
    /\ th.vout = 1650
    /\ th.t_resistance = IntToFloat(100)
    /\ Configured(th) =
          <<ADC_CHANNEL_2, IntToFloat(100), IntToFloat(100000), IntToFloat(25),
            IntToFloat(2000), IntToFloat(3300), TRUE, ADC_UNIT_1,
            CaliHandle("line_fitting")>>

\* Task t's thermistor_read_vout call of this or of its last
\* thermistor_get_celsius has returned: task[t].ret is the voltage it sampled.
HasSampled(t) ==
    task[t].pc \in {"read_done", "stored", "converting", "resistance_stored", "returned"}
    \/ (task[t].pc = "idle" /\ task[t].calls > 0)

\* The temperature thermistor_vout_to_celsius computes for vout millivolts.
ConversionOf(vout) == Steinhart(th, DividerResistance(th, vout))

\* C17: a thermistor_get_celsius call returns the conversion of the voltage it
\* sampled itself whenever no other task has overwritten th->vout or
\* th->t_resistance between the call's store of the field and its load of it
\* (as in sequential calls); the witness is the state the claim says is
\* reachable when the steps interleave.
C17_UndisturbedCallConvertsOwnSample ==
    \A t \in Tasks :
        (task[t].pc = "returned" /\ ~task[t].overwritten) =>
            task[t].celsius = ConversionOf(task[t].ret)

\* Task 1 sampled 1650 mV and task 2 3299 mV; task 2 stored its voltage after
\* task 1's store and before task 1's conversion: the temperature returned to
\* task 1 is the conversion of 3299 mV, not the 24.9999943 of its own 1650 mV.
C17_Witness ==
    /\ task[1].pc = "returned"
    /\ task[1].ret = 1650
    /\ HasSampled(2)
    /\ task[2].ret = 3299
    /\ task[1].celsius = ConversionOf(3299)
    /\ ConversionOf(1650) = Canon(0, BigOfInt(13107197), -19)
    /\ task[1].celsius # ConversionOf(1650)

\* An adc_oneshot_read of the current thermistor_read_vout call has failed.
ReadFailed == err \notin {None, "ESP_OK"}

\* C18: in a thermistor_read_vout call, every step of the loop is one ADC read
\* made while fewer than 64 have been made; after a read that reports an error
\* the call makes no further read; a call makes at most 64 reads and at most
\* one calibration conversion.
C18_ReadsStopAtFirstError ==
    [][/\ reads' <= NO_OF_SAMPLES
       /\ Len(cali') <= 1
       /\ pc = "sampling" => (reads < NO_OF_SAMPLES /\ reads' = reads + 1)
       /\ pc # "sampling" => reads' <= reads
       /\ ReadFailed => (reads' <= reads /\ pc' # "sampling")]_vars

\* The tenth read of the call failed: ten reads were made, no conversion.
C18_Witness ==
    /\ pc = "read_done"
    /\ err = "ESP_ERR_TIMEOUT"
    /\ i = 9
    /\ reads = 10
    /\ cali = << >>
    /\ ret = 0

\* The handles the calibration provider can create.
CreatedHandles == {CaliHandle("curve_fitting"), CaliHandle("line_fitting")}

\* C19: a thermistor_read_vout call converts with the calibration provider
\* exactly when the instance is calibrated and the loop ended without a read
\* error, and returns 0 without a conversion otherwise; every conversion is
\* made with the instance's handle, which the provider created (not NULL).
C19_ConversionOnlyWithCreatedHandle ==
    /\ \A k \in 1..Len(cali) :
          /\ th.calibrated
          /\ cali[k].h = th.adc_cali_h
          /\ cali[k].h \in CreatedHandles
          /\ cali[k].h # NullCali
          /\ cali[k].result = "ESP_OK"
    /\ pc = "read_done" =>
          /\ Len(cali) = 1 <=> (th.calibrated /\ err = "ESP_OK")
          /\ Len(cali) = 0 => ret = 0

\* A full read of 3299 mV on an instance calibrated by curve fitting: the one
\* conversion was made with the curve-fitting handle.
C19_Witness ==
    /\ pc = "read_done"
    /\ th.calibrated
    /\ th.adc_cali_h = CaliHandle("curve_fitting")
    /\ err = "ESP_OK"
    /\ Len(cali) = 1
    /\ cali[1].h = CaliHandle("curve_fitting")
    /\ ret = 3299

\* The step of the compensated summation in double arithmetic: <<t, c>> for
\* the doubles s and comp and the code raw.
KahanStepDouble(s, comp, raw) ==
    LET y == FSub(DoubleBits, IntToDouble(raw), comp)
        t == FAdd(DoubleBits, s, y)
    IN  <<t, FSub(DoubleBits, FSub(DoubleBits, t, s), y)>>

\* (int) of a finite double: the fraction is cut off.
DoubleToInt(x) ==
    (IF x.s = 1 THEN -1 ELSE 1)
        * BigToInt(IF x.e >= 0 THEN BigShl(x.m, x.e) ELSE BigShr(x.m, 0 - x.e))

\* The last iteration, computed in double from the sum before it, gives the
\* sum and the correction term the loop holds now.
LastStepInDouble ==
    KahanStepDouble(IntToDouble(sum - adc_raw), IntToDouble(c), adc_raw)
        = <<IntToDouble(sum), Zero(0)>>

\* C20: the correction term c of the compensated summation is 0 at every
\* iteration, in double arithmetic too, and after 64 successful reads the
\* averaged code (int)(sum/64), which is the code given to the calibration
\* conversion, is the one the earlier thermistor_read_vout computes from the
\* same 64 codes with its integer sum.
C20_KahanEqualsPlainSum ==
    /\ c = 0
    /\ (pc \in {"sampling", "averaging"} /\ err = "ESP_OK") => LastStepInDouble
    /\ (pc = "read_done" /\ err = "ESP_OK") =>
          /\ i = NO_OF_SAMPLES
          /\ adc_raw = thermistor_read_vout_plain(signal)
          /\ adc_raw = DoubleToInt(FDiv(DoubleBits, IntToDouble(sum), IntToDouble(i)))
          /\ \A k \in 1..Len(cali) : cali[k].raw = thermistor_read_vout_plain(signal)

\* 32 samples of 4094 and 32 of 4095: both implementations give 4094 to the
\* conversion.
C20_Witness ==
    /\ pc = "read_done" /\ err = "ESP_OK"
    /\ signal = [level |-> 4094, pattern |-> "alternate"]
    /\ sum = 64 * 4094 + 32
    /\ c = 0
    /\ thermistor_read_vout_plain(signal) = 4094
    /\ Len(cali) = 1
    /\ cali[1].raw = 4094

====
